---- MODULE Spec2Model ----
(***************************************************************************)
(* A model of app.py (grabapic): the name sanitizer (safe_filename,        *)
(* unique_name), the srcset selector (pick_best_from_srcset), the URL      *)
(* extractor (extract_image_urls) and the fetch-and-package pipeline       *)
(* (build_zip_from_images).                                                *)
(*                                                                         *)
(* Python str values are TLA+ strings; TLC evaluates Len, SubSeq and \o on *)
(* them, so the string functions are modelled character by character.      *)
(***************************************************************************)
EXTENDS Integers, Sequences, FiniteSets, TLC

VARIABLES
    sanPc, sanRaw, sanFallback, sanOut,         \* one call of safe_filename
    uqExisting, uqCalls, uqProposed, uqReturned, \* calls of unique_name on one set
    srcPc, srcParts, srcset, srcBest,            \* one call of pick_best_from_srcset
    exPc, exHtml, exBase, exOut,                 \* one call of extract_image_urls
    \* one call of build_zip_from_images:
    pc,          \* where the call is
    page,        \* what the server holds at page_url: the final URL and the markup
    page_status, \* the status of the page response, 0 while there is none
    max_images,  \* the argument
    image_urls, idx, downloaded, skipped, used_names, \* the locals
    extracted,   \* what extract_image_urls returned, before the list is cut
    zip,         \* the entries written to zf, in order
    inflight,    \* the URLs of the requests sent and not yet answered
    requests,    \* the URLs requested so far, in order
    attempts,    \* what came back for each image request, in order
    result       \* what the call returned or raised

sanVars == <<sanPc, sanRaw, sanFallback, sanOut>>
uqVars == <<uqExisting, uqCalls, uqProposed, uqReturned>>
srcVars == <<srcPc, srcParts, srcset, srcBest>>
exVars == <<exPc, exHtml, exBase, exOut>>
zipVars == <<pc, page, page_status, max_images, extracted, image_urls, idx, downloaded, skipped, used_names,
             zip, inflight, requests, attempts, result>>
vars == <<sanVars, uqVars, srcVars, exVars, zipVars>>

\* the variables of a part that a specification does not use
SanIdle == sanPc = "off" /\ sanRaw = "" /\ sanFallback = "" /\ sanOut = ""

UqIdle == uqExisting = {} /\ uqCalls = 0 /\ uqProposed = "" /\ uqReturned = ""

SrcIdle == srcPc = "off" /\ srcParts = <<>> /\ srcset = "" /\ srcBest = ""

ExIdle == exPc = "off" /\ exHtml = <<>> /\ exBase = "" /\ exOut = <<>>

NoResult == [state |-> "none"]

ZipIdle ==
    /\ pc = "off" /\ page = [final_url |-> "", html |-> <<>>] /\ page_status = 0
    /\ max_images = 1
    /\ extracted = <<>>
    /\ image_urls = <<>> /\ idx = 0 /\ downloaded = <<>> /\ skipped = <<>>
    /\ used_names = {} /\ zip = <<>> /\ inflight = {} /\ requests = <<>>
    /\ attempts = <<>> /\ result = NoResult

(***************************************************************************)
(* Strings                                                                 *)
(***************************************************************************)
\* Python's None: a value apart from every str the model handles (TLC compares
\* a string only with strings, and no input holds the character "<")
None == "<None>"

Char(s, i) == SubSeq(s, i, i)

InStr(c, chars) == \E i \in 1..Len(chars) : Char(chars, i) = c

LowerAlpha == "abcdefghijklmnopqrstuvwxyz"
UpperAlpha == "ABCDEFGHIJKLMNOPQRSTUVWXYZ"
Digits == "0123456789"

CharsOf(chars) == {Char(chars, i) : i \in 1..Len(chars)}

\* \w of the re module, on the ASCII characters
WordChars == CharsOf(LowerAlpha) \cup CharsOf(UpperAlpha) \cup CharsOf(Digits) \cup {"_"}

IsWordChar(c) == c \in WordChars

\* \s of the re module and the characters str.strip() removes
SpaceChars == CharsOf(" \t\n\r\f")

IsSpaceChar(c) == c \in SpaceChars

\* [^\w\-. ]
IsDisallowedChar(c) == ~(IsWordChar(c) \/ c = "-" \/ c = "." \/ c = " ")

StartsWith(s, p) == Len(p) <= Len(s) /\ SubSeq(s, 1, Len(p)) = p

EndsWith(s, p) == Len(p) <= Len(s) /\ SubSeq(s, Len(s) - Len(p) + 1, Len(s)) = p

\* str.lower(), on the ASCII letters
LowerChar(c) ==
    IF InStr(c, UpperAlpha)
    THEN Char(LowerAlpha, CHOOSE i \in 1..Len(UpperAlpha) : Char(UpperAlpha, i) = c)
    ELSE c

\* "".join(pieces[lo..hi]), by halves so that long strings nest shallowly
RECURSIVE JoinRange(_, _, _)
JoinRange(pieces, lo, hi) ==
    IF lo > hi THEN ""
    ELSE IF lo = hi THEN pieces[lo]
    ELSE LET mid == (lo + hi) \div 2
         IN  JoinRange(pieces, lo, mid) \o JoinRange(pieces, mid + 1, hi)

Join(pieces) == JoinRange(pieces, 1, Len(pieces))

Lower(s) == Join([i \in 1..Len(s) |-> LowerChar(Char(s, i))])

\* str.strip()
Strip(s) ==
    LET keep == {i \in 1..Len(s) : ~IsSpaceChar(Char(s, i))}
    IN  IF keep = {} THEN ""
        ELSE SubSeq(s, CHOOSE i \in keep : \A j \in keep : i <= j,
                       CHOOSE i \in keep : \A j \in keep : j <= i)

\* the strings over an alphabet (a set of characters) of length at most n
RECURSIVE StringsUpTo(_, _)
StringsUpTo(alphabet, n) ==
    IF n = 0 THEN {""}
    ELSE LET shorter == StringsUpTo(alphabet, n - 1)
         IN  shorter \cup {s \o c : s \in shorter, c \in alphabet}

Repeat(s, n) == Join([i \in 1..n |-> s])

(***************************************************************************)
(* safe_filename                                                           *)
(***************************************************************************)
MaxNameLen == 180

\* re.sub(r"[^\w\-. ]+", "_", name): a maximal run of matching characters
\* becomes one "_" (written at the first character of the run)
SubDisallowed(s) ==
    Join([i \in 1..Len(s) |->
            IF ~IsDisallowedChar(Char(s, i)) THEN Char(s, i)
            ELSE IF i > 1 /\ IsDisallowedChar(Char(s, i - 1)) THEN "" ELSE "_"])

\* re.sub(r"\s+", "_", name)
SubSpace(s) ==
    Join([i \in 1..Len(s) |->
            IF ~IsSpaceChar(Char(s, i)) THEN Char(s, i)
            ELSE IF i > 1 /\ IsSpaceChar(Char(s, i - 1)) THEN "" ELSE "_"])

Truncate(s, n) == IF Len(s) <= n THEN s ELSE SubSeq(s, 1, n)

\* safe_filename without the cut to 180 characters
safe_filename_uncut(name, fallback) ==
    LET subbed == SubSpace(SubDisallowed(Strip(name)))
    IN  IF subbed = "" THEN fallback ELSE subbed

safe_filename(name, fallback) ==
    LET subbed == SubSpace(SubDisallowed(Strip(name)))
    IN  Truncate(IF subbed = "" THEN fallback ELSE subbed, MaxNameLen)

(***************************************************************************)
(* unique_name                                                             *)
(***************************************************************************)
\* range(2, 10_000) stops before this number
SuffixStop == 10000

HexDigits == "0123456789abcdef"

RECURSIVE IntToStr(_)
IntToStr(n) ==
    IF n < 10 THEN Char(Digits, n + 1)
    ELSE IntToStr(n \div 10) \o Char(Digits, (n % 10) + 1)

\* proposed.rpartition("."), with the stem, ext = proposed, "" of a name without dot
RPartitionDot(proposed) ==
    LET dots == {i \in 1..Len(proposed) : Char(proposed, i) = "."}
    IN  IF dots = {} THEN [stem |-> proposed, ext |-> ""]
        ELSE LET k == CHOOSE i \in dots : \A j \in dots : j <= i
             IN  [stem |-> SubSeq(proposed, 1, k - 1),
                  ext |-> SubSeq(proposed, k + 1, Len(proposed))]

\* f"{stem}_{i}{('.' + ext) if ext else ''}"
Suffixed(stem, suffix, ext) ==
    stem \o "_" \o suffix \o (IF ext # "" THEN "." \o ext ELSE "")

Candidate(proposed, i) ==
    LET p == RPartitionDot(proposed) IN Suffixed(p.stem, IntToStr(i), p.ext)

\* hashlib.sha256(proposed.encode("utf-8")).hexdigest()[:10].  SHA-256 itself
\* is not computed: the stand-in is a function of the string alone that
\* yields ten hexadecimal digits, which is all the callers rely on.
Sha256Hex10(proposed) ==
    LET n == Len(proposed)
        code(i) == CHOOSE k \in 1..Len(LowerAlpha) + 1 :
                      k = Len(LowerAlpha) + 1 \/ Char(LowerAlpha, k) = Char(proposed, i)
        digit(j) == LET i == IF n = 0 THEN 0 ELSE ((j - 1) % n) + 1
                    IN  Char(HexDigits, (((IF n = 0 THEN 0 ELSE code(i)) * 7 + j * n) % 16) + 1)
    IN  Join([j \in 1..10 |-> digit(j)])

\* unique_name trying the suffix 2 only, without looking whether it is taken
UniqueNameOfFirstSuffix(existing, proposed) ==
    IF proposed \notin existing THEN proposed ELSE Candidate(proposed, 2)

\* The name unique_name returns
UniqueNameOf(existing, proposed) ==
    IF proposed \notin existing THEN proposed
    ELSE IF \E i \in 2..(SuffixStop - 1) : Candidate(proposed, i) \notin existing
         THEN Candidate(proposed,
                        CHOOSE i \in 2..(SuffixStop - 1) :
                            /\ Candidate(proposed, i) \notin existing
                            /\ \A j \in 2..(i - 1) : Candidate(proposed, j) \in existing)
         ELSE \* last resort
              LET p == RPartitionDot(proposed)
              IN  Suffixed(p.stem, Sha256Hex10(proposed), p.ext)

\* unique_name(existing, proposed): the name returned and the set it leaves
\* (every return path adds the name it returns)
unique_name(existing, proposed) ==
    LET name == UniqueNameOf(existing, proposed)
    IN  [name |-> name, existing |-> existing \cup {name}]

(***************************************************************************)
(* Specification SpecUnique: a sequence of unique_name calls on one set.   *)
(* The set starts empty or as a run of earlier calls on one name left it.  *)
(***************************************************************************)
MaxCalls == 4

UqProposals == {"a.png", "a", "a_2.png"}

\* the set after n calls of unique_name(existing, proposed) from the empty
\* set, n below SuffixStop
AfterCalls(proposed, n) ==
    IF n = 0 THEN {} ELSE {proposed} \cup {Candidate(proposed, i) : i \in 2..n}

UqInit ==
    /\ uqExisting \in {AfterCalls("a.png", n) : n \in {0, SuffixStop - 3, SuffixStop - 1}}
    /\ uqCalls = 0
    /\ uqProposed = ""
    /\ uqReturned = ""
    /\ SanIdle
    /\ SrcIdle
    /\ ExIdle
    /\ ZipIdle

UniqueNameCall ==
    /\ uqCalls < MaxCalls
    /\ \E proposed \in UqProposals :
          LET r == unique_name(uqExisting, proposed)
          IN  /\ uqProposed' = proposed
              /\ uqReturned' = r.name
              /\ uqExisting' = r.existing
    /\ uqCalls' = uqCalls + 1
    /\ UNCHANGED <<sanVars, srcVars, exVars, zipVars>>

UqNext == UniqueNameCall

SpecUnique == UqInit /\ [][UqNext]_vars

\* C2: each unique_name call returns a name that was not in the set just
\* before the call and is in it just after, the digest-suffixed last resort
\* included, also when the same name is proposed again after the last resort.
UniquifyReturnsFreshName ==
    [][uqCalls' # uqCalls =>
          (uqReturned' \notin uqExisting /\ uqReturned' \in uqExisting')]_vars

\* What C1 rests on beyond the calls the pipeline specification makes: a call
\* returns a name that the set already held only if the set held at least
\* SuffixStop names (the proposed one, every suffixed one and the last
\* resort), more than the 2000 names that max_images allows one call to add.
RepeatedNameNeedsFullSet ==
    [][(uqCalls' # uqCalls /\ uqReturned' \in uqExisting) =>
          Cardinality(uqExisting) >= SuffixStop]_vars

(***************************************************************************)
(* Specification SpecSanitize: safe_filename applied to one input.         *)
(***************************************************************************)
MaxRawLen == 3

SanAlphabet == {"a", "_", ".", " ", "!", "\t"}

SanLongInputs ==
    {Repeat("a", n) : n \in (MaxNameLen - 1)..(MaxNameLen + 2)}
        \cup {Repeat("a", MaxNameLen - 1) \o s : s \in {"! b", " !", "!!b", ".png"}}

SanInputs == StringsUpTo(SanAlphabet, MaxRawLen) \cup SanLongInputs \cup {"My Photo! 2024.JPG", "a!\t b"}

SanFallbacks == {"image", "f"}

SanInit ==
    /\ sanPc = "ready"
    /\ sanRaw \in SanInputs
    /\ sanFallback \in SanFallbacks
    /\ sanOut = ""
    /\ UqIdle
    /\ SrcIdle
    /\ ExIdle
    /\ ZipIdle

SanitizeCall ==
    /\ sanPc = "ready"
    /\ sanOut' = safe_filename(sanRaw, sanFallback)
    /\ sanPc' = "done"
    /\ UNCHANGED <<sanRaw, sanFallback, uqVars, srcVars, exVars, zipVars>>

SanNext == SanitizeCall

SpecSanitize == SanInit /\ [][SanNext]_vars

(***************************************************************************)
(* pick_best_from_srcset                                                   *)
(***************************************************************************)
\* the k-th smallest element of a set of integers
Nth(S, k) == CHOOSE i \in S : Cardinality({j \in S : j < i}) = k - 1

\* s.split(sep) for a one-character sep: the sequence of the pieces
SplitChar(s, sep) ==
    LET cuts == {i \in 1..Len(s) : Char(s, i) = sep}
        n == Cardinality(cuts)
        from(k) == IF k = 1 THEN 1 ELSE Nth(cuts, k - 1) + 1
        to(k) == IF k = n + 1 THEN Len(s) ELSE Nth(cuts, k) - 1
    IN  [k \in 1..(n + 1) |-> SubSeq(s, from(k), to(k))]

\* s.split(): the maximal runs of characters that are not whitespace
SplitSpace(s) ==
    LET isTok(i) == i >= 1 /\ i <= Len(s) /\ ~IsSpaceChar(Char(s, i))
        starts == {i \in 1..Len(s) : isTok(i) /\ ~isTok(i - 1)}
        ends == {i \in 1..Len(s) : isTok(i) /\ ~isTok(i + 1)}
    IN  [k \in 1..Cardinality(starts) |-> SubSeq(s, Nth(starts, k), Nth(ends, k))]

RECURSIVE StrToInt(_)
StrToInt(d) ==
    IF d = "" THEN 0
    ELSE 10 * StrToInt(SubSeq(d, 1, Len(d) - 1))
           + ((CHOOSE k \in 1..10 : Char(Digits, k) = Char(d, Len(d))) - 1)

\* re.match(r"(\d+)(w|x)$", token): whether it matches
MatchesWidth(token) ==
    /\ Len(token) >= 2
    /\ Char(token, Len(token)) \in {"w", "x"}
    /\ \A i \in 1..(Len(token) - 1) : InStr(Char(token, i), Digits)

\* the (w, url) pair appended for one non-empty part
CandidateOf(part) ==
    LET bits == SplitSpace(part)
        url == Strip(bits[1])
        w == IF Len(bits) > 1 /\ MatchesWidth(Strip(bits[2]))
             THEN StrToInt(SubSeq(Strip(bits[2]), 1, Len(Strip(bits[2])) - 1))
             ELSE 0
    IN  [w |-> w, url |-> url]

\* the candidates list after the loop over srcset.split(",")
RECURSIVE CandidatesFrom(_, _)
CandidatesFrom(parts, k) ==
    IF k > Len(parts) THEN <<>>
    ELSE LET part == Strip(parts[k])
         IN  (IF part = "" THEN <<>> ELSE <<CandidateOf(part)>>)
                 \o CandidatesFrom(parts, k + 1)

\* a sort that puts an element in front of those of the same key
InsertByWidthInFront(sorted, c) ==
    LET before == {i \in 1..Len(sorted) : sorted[i].w < c.w}
        n == IF before = {} THEN 0 ELSE CHOOSE i \in before : \A j \in before : j <= i
    IN  SubSeq(sorted, 1, n) \o <<c>> \o SubSeq(sorted, n + 1, Len(sorted))

\* list.sort(key=lambda t: t[0]) is stable: an element goes behind every
\* element of the sorted prefix whose key is not greater
InsertByWidth(sorted, c) ==
    LET before == {i \in 1..Len(sorted) : sorted[i].w <= c.w}
        n == IF before = {} THEN 0 ELSE CHOOSE i \in before : \A j \in before : j <= i
    IN  SubSeq(sorted, 1, n) \o <<c>> \o SubSeq(sorted, n + 1, Len(sorted))

RECURSIVE SortByWidthFrom(_, _, _)
SortByWidthFrom(cands, k, sorted) ==
    IF k > Len(cands) THEN sorted
    ELSE SortByWidthFrom(cands, k + 1, InsertByWidth(sorted, cands[k]))

SortByWidth(cands) == SortByWidthFrom(cands, 1, <<>>)

pick_best_from_srcset(s) ==
    IF s = None \/ s = "" THEN None
    ELSE LET candidates == CandidatesFrom(SplitChar(s, ","), 1)
         IN  IF candidates = <<>> THEN None
             ELSE LET sorted == SortByWidth(candidates)
                  IN  sorted[Len(sorted)].url

(***************************************************************************)
(* Specification SpecSrcset: pick_best_from_srcset applied to one srcset,  *)
(* which is written from a list of entries whose URL and width are known.  *)
(***************************************************************************)
MaxParts == 3

\* entries as they are written in a srcset, each with its URL and the width
\* of its descriptor; url = None marks an entry that is empty
SrcsetEntries ==
    { [text |-> "",               url |-> None,    w |-> 0],
      [text |-> "  ",             url |-> None,    w |-> 0],
      [text |-> "a.jpg 320w",     url |-> "a.jpg", w |-> 320],
      [text |-> "b.jpg 640w",     url |-> "b.jpg", w |-> 640],
      [text |-> " c.jpg  640w ",  url |-> "c.jpg", w |-> 640],
      [text |-> "d.jpg",          url |-> "d.jpg", w |-> 0],
      [text |-> "e.jpg 2x",       url |-> "e.jpg", w |-> 2],
      [text |-> "f.jpg 1.5x",     url |-> "f.jpg", w |-> 0],
      [text |-> "g.jpg w",        url |-> "g.jpg", w |-> 0],
      [text |-> "h.jpg 640",      url |-> "h.jpg", w |-> 0],
      [text |-> "i.jpg 3x 900w",  url |-> "i.jpg", w |-> 3],
      [text |-> "j.jpg 640wx",    url |-> "j.jpg", w |-> 0],
      [text |-> "k.jpg a640w",    url |-> "k.jpg", w |-> 0],
      [text |-> "\tl.jpg\t1000w", url |-> "l.jpg", w |-> 1000] }

SeqsUpTo(S, n) == UNION {[1..k -> S] : k \in 0..n}

\* ",".join of the entries' texts
Srcset(parts) ==
    Join([i \in 1..(2 * Len(parts) - 1) |->
            IF i % 2 = 1 THEN parts[(i + 1) \div 2].text ELSE ","])

SrcInit ==
    /\ srcPc = "ready"
    /\ srcParts \in SeqsUpTo(SrcsetEntries, MaxParts)
    /\ srcset \in {Srcset(srcParts)} \cup (IF srcParts = <<>> THEN {None} ELSE {})
    /\ srcBest = None
    /\ SanIdle
    /\ UqIdle
    /\ ExIdle
    /\ ZipIdle

PickBestCall ==
    /\ srcPc = "ready"
    /\ srcBest' = pick_best_from_srcset(srcset)
    /\ srcPc' = "done"
    /\ UNCHANGED <<srcParts, srcset, sanVars, uqVars, exVars, zipVars>>

SrcNext == PickBestCall

SpecSrcset == SrcInit /\ [][SrcNext]_vars

\* the positions of the entries that are not empty
SrcFilled == {i \in 1..Len(srcParts) : srcParts[i].url # None}

\* C7: for a srcset with an entry that is not empty, pick_best_from_srcset
\* returns the URL of the last entry, in the order written, among those of
\* the greatest width; for None, "" or a srcset of empty entries, None.
SelectBestIsLastMaximum ==
    srcPc = "done" =>
        IF SrcFilled = {} THEN srcBest = None
        ELSE \E i \in SrcFilled :
                /\ srcBest = srcParts[i].url
                /\ \A j \in SrcFilled : srcParts[j].w <= srcParts[i].w
                /\ \A j \in SrcFilled : srcParts[j].w = srcParts[i].w => j <= i

\* C7 witness: two entries tie at the greatest width behind a narrower one,
\* and the later of the two was returned
SelectBestTieDone ==
    /\ srcPc = "done"
    /\ srcset = "b.jpg 640w, c.jpg  640w ,a.jpg 320w"
    /\ srcBest = "c.jpg"

(***************************************************************************)
(* extract_image_urls                                                      *)
(*                                                                         *)
(* The markup is the list BeautifulSoup's find_all("img") yields: one      *)
(* record per img element, in document order, with the five attributes     *)
(* the code reads (None for an attribute the element does not have).       *)
(* URLs are http(s) URLs without dot segments, ";" parameters or           *)
(* fragments, for which urljoin and urlparse come down to the cases below. *)
(***************************************************************************)
\* the characters of code 32 to 95 and of code 97 to 126
AsciiFrom32 == " !\"#$%&'()*+,-./0123456789:;<=>?@ABCDEFGHIJKLMNOPQRSTUVWXYZ[\\]^_"
AsciiFrom97 == "abcdefghijklmnopqrstuvwxyz{|}~"

\* ord, on these characters and the tab
OrdOf ==
    [c \in {Char(AsciiFrom32, k) : k \in 1..Len(AsciiFrom32)}
              \cup {Char(AsciiFrom97, k) : k \in 1..Len(AsciiFrom97)} \cup {"\t"} |->
        IF c = "\t" THEN 9
        ELSE IF InStr(c, AsciiFrom32)
             THEN 31 + (CHOOSE k \in 1..Len(AsciiFrom32) : Char(AsciiFrom32, k) = c)
             ELSE 96 + (CHOOSE k \in 1..Len(AsciiFrom97) : Char(AsciiFrom97, k) = c)]

Ord(c) == OrdOf[c]

\* a < b for str: by the first position where they differ, a proper prefix first
StrLess(a, b) ==
    LET n == IF Len(a) < Len(b) THEN Len(a) ELSE Len(b)
        differ == {i \in 1..n : Char(a, i) # Char(b, i)}
    IN  IF differ = {} THEN Len(a) < Len(b)
        ELSE LET i == CHOOSE i \in differ : \A j \in differ : i <= j
             IN  Ord(Char(a, i)) < Ord(Char(b, i))

\* sorted(S, reverse=True)
SortedDescending(S) ==
    [k \in 1..Cardinality(S) |->
        CHOOSE u \in S : Cardinality({v \in S : StrLess(u, v)}) = k - 1]

\* sorted(S) for a set of str
Sorted(S) ==
    [k \in 1..Cardinality(S) |->
        CHOOSE u \in S : Cardinality({v \in S : StrLess(v, u)}) = k - 1]

\* the first position of the string sub in s from position from on, 0 if none
Find(s, sub, from) ==
    LET hits == {i \in from..(Len(s) - Len(sub) + 1) : SubSeq(s, i, i + Len(sub) - 1) = sub}
    IN  IF hits = {} THEN 0 ELSE CHOOSE i \in hits : \A j \in hits : i <= j

HasScheme(ref) == StartsWith(ref, "http://") \/ StartsWith(ref, "https://")

\* "scheme://netloc" of an absolute URL
UrlOrigin(u) ==
    LET slash == Find(u, "/", Find(u, "://", 1) + 3)
    IN  IF slash = 0 THEN u ELSE SubSeq(u, 1, slash - 1)

\* urlparse(u).path
UrlPath(u) ==
    LET rest == SubSeq(u, Len(UrlOrigin(u)) + 1, Len(u))
        ends == {i \in 1..Len(rest) : Char(rest, i) \in {"?", "#"}}
    IN  IF ends = {} THEN rest
        ELSE SubSeq(rest, 1, (CHOOSE i \in ends : \A j \in ends : i <= j) - 1)

\* urljoin(base, ref)
UrlJoin(base, ref) ==
    IF HasScheme(ref) THEN ref
    ELSE IF StartsWith(ref, "//") THEN SubSeq(base, 1, Find(base, "://", 1)) \o ref
    ELSE IF StartsWith(ref, "/") THEN UrlOrigin(base) \o ref
    ELSE LET path == UrlPath(base)
             slashes == {i \in 1..Len(path) : Char(path, i) = "/"}
             dir == IF slashes = {} THEN "/"
                    ELSE SubSeq(path, 1, CHOOSE i \in slashes : \A j \in slashes : j <= i)
         IN  UrlOrigin(base) \o dir \o ref

\* a value that "or" and "if not" take for false
Falsy(v) == v = None \/ v = ""

\* the src of one img element: best or the first attribute that is not falsy
\* (the last operand when all are)
ImgSrc(img) ==
    LET best == IF Falsy(img.srcset) THEN None ELSE pick_best_from_srcset(img.srcset)
    IN  IF ~Falsy(best) THEN best
        ELSE IF ~Falsy(img.src) THEN img.src
        ELSE IF ~Falsy(img.data_src) THEN img.data_src
        ELSE IF ~Falsy(img.data_original) THEN img.data_original
        ELSE img.data_lazy_src

\* the set urls after the loop over the img elements
ImgUrlSet(html, base_url) ==
    {UrlJoin(base_url, ImgSrc(html[i])) : i \in {j \in 1..Len(html) : ~Falsy(ImgSrc(html[j]))}}

\* the URLs in the order in which the markup first names them
extract_image_urls_unsorted(html, base_url) ==
    LET url(i) == UrlJoin(base_url, ImgSrc(html[i]))
        named == {j \in 1..Len(html) : ~Falsy(ImgSrc(html[j]))}
        first == {j \in named : \A i \in named : i < j => url(i) # url(j)}
    IN  [k \in 1..Cardinality(first) |-> url(Nth(first, k))]

extract_image_urls(html, base_url) == Sorted(ImgUrlSet(html, base_url))

(***************************************************************************)
(* Specification SpecExtract: extract_image_urls applied to one markup.    *)
(***************************************************************************)
MaxImgs == 3

Img(v1, v2, v3, v4, v5) ==
    [srcset |-> v1, src |-> v2, data_src |-> v3, data_original |-> v4, data_lazy_src |-> v5]

ImgPool ==
    { Img(None, "/a/pic.png", None, None, None),
      Img(None, "a/pic.png", None, None, None),
      Img("b-320.jpg 320w, b-640.jpg 640w", None, None, None, None),
      Img(None, "", "/b/pic.png", None, "/z.png"),
      Img(" , ", None, None, "/e/pic", None),
      Img(None, None, None, None, "https://y.test/c/pic.png"),
      Img("", "", "", "", "") }

ExBases == {"https://x.test/p", "http://x.test/d/p"}

ExInit ==
    /\ exPc = "ready"
    /\ exHtml \in SeqsUpTo(ImgPool, MaxImgs)
    /\ exBase \in ExBases
    /\ exOut = <<>>
    /\ SanIdle
    /\ UqIdle
    /\ SrcIdle
    /\ ZipIdle

ExtractCall ==
    /\ exPc = "ready"
    /\ exOut' = extract_image_urls(exHtml, exBase)
    /\ exPc' = "done"
    /\ UNCHANGED <<exHtml, exBase, sanVars, uqVars, srcVars, zipVars>>

ExNext == ExtractCall

SpecExtract == ExInit /\ [][ExNext]_vars

\* the markup with its img elements in the order perm gives
Reordered(html, perm) == [i \in 1..Len(html) |-> html[perm[i]]]

Perms(n) == {f \in [1..n -> 1..n] : \A i, j \in 1..n : f[i] = f[j] => i = j}

\* C8: the list extract_image_urls returns is strictly ascending in the order
\* of str (so it repeats no URL), and the markup with its img elements in
\* any other order, extracted against the same base URL, gives the same list.
ExtractSortedOrderStable ==
    exPc = "done" =>
        /\ \A i \in 1..(Len(exOut) - 1) : StrLess(exOut[i], exOut[i + 1])
        /\ \A perm \in Perms(Len(exHtml)) :
              extract_image_urls(Reordered(exHtml, perm), exBase) = exOut

\* C8 witness: three elements, two of them naming one URL, were extracted in
\* an order that is not the document's
ExtractReorderedDone ==
    /\ exPc = "done"
    /\ Len(exHtml) = 3
    /\ exHtml[1].data_lazy_src = "https://y.test/c/pic.png"
    /\ exHtml[2].src = "/a/pic.png"
    /\ exHtml[3].src = "a/pic.png"
    /\ exBase = "https://x.test/p"
    /\ exOut = <<"https://x.test/a/pic.png", "https://y.test/c/pic.png">>

\* the number of maximal runs in s of characters of the class InClass
RunCount(s, InClass(_)) ==
    Cardinality({i \in 1..Len(s) :
                    InClass(Char(s, i)) /\ (i = 1 \/ ~InClass(Char(s, i - 1)))})

CharCount(s, c) == Cardinality({i \in 1..Len(s) : Char(s, i) = c})

IsBlank(c) == c = " "

IsDisallowedOrSpace(c) == IsDisallowedChar(c) \/ IsSpaceChar(c)

\* C6 (as amended): safe_filename turns each maximal run of disallowed
\* characters of the stripped input into one underscore and then each maximal
\* run of blanks into one underscore, so a disallowed character next to a
\* blank gives two underscores: "My Photo! 2024.JPG" gives
\* "My_Photo__2024.JPG"; the result is the fallback when the stripped input
\* is empty, holds no disallowed character and no whitespace otherwise, and
\* is never longer than 180 characters.
SanitizeTwoPasses ==
    sanPc = "done" =>
        LET t == Strip(sanRaw)
        IN  /\ Len(sanOut) <= 180
            /\ t = "" => sanOut = sanFallback
            /\ t # "" => \A i \in 1..Len(sanOut) : ~IsDisallowedOrSpace(Char(sanOut, i))
            /\ (t # "" /\ Len(sanOut) < 180) =>
                  CharCount(sanOut, "_") =
                      CharCount(t, "_") + RunCount(t, IsDisallowedChar) + RunCount(t, IsBlank)
            /\ sanRaw = "My Photo! 2024.JPG" => sanOut = "My_Photo__2024.JPG"

\* C6 witness: the example input was sanitized, and so was an input cut at 180
SanitizeExampleDone ==
    /\ sanPc = "done"
    /\ sanRaw = "My Photo! 2024.JPG"
    /\ sanFallback = "image"
    /\ sanOut = "My_Photo__2024.JPG"

\* C6 as stated: each maximal run of disallowed characters and whitespace
\* becomes a single underscore, and the example gives "My_Photo_2024.JPG".
SanitizeSingleUnderscore ==
    sanPc = "done" =>
        LET t == Strip(sanRaw)
        IN  /\ Len(sanOut) <= 180
            /\ t = "" => sanOut = sanFallback
            /\ (t # "" /\ Len(sanOut) < 180) =>
                  CharCount(sanOut, "_") = CharCount(t, "_") + RunCount(t, IsDisallowedOrSpace)
            /\ sanRaw = "My Photo! 2024.JPG" => sanOut = "My_Photo_2024.JPG"

(***************************************************************************)
(* build_zip_from_images                                                   *)
(***************************************************************************)
IMG_EXTS == {".jpg", ".jpeg", ".png", ".gif", ".webp", ".bmp", ".tif", ".tiff", ".svg", ".avif"}

\* the media type of a Content-Type value: ct.lower().split(";")[0].strip()
MediaType(ct) == Strip(SplitChar(Lower(IF ct = None THEN "" ELSE ct), ";")[1])

guess_ext_from_content_type(ct) ==
    LET t == MediaType(ct)
    IN  IF t \in {"image/jpeg", "image/jpg"} THEN ".jpg"
        ELSE IF t = "image/png" THEN ".png"
        ELSE IF t = "image/gif" THEN ".gif"
        ELSE IF t = "image/webp" THEN ".webp"
        ELSE IF t = "image/avif" THEN ".avif"
        ELSE IF t = "image/svg+xml" THEN ".svg"
        ELSE IF t = "image/bmp" THEN ".bmp"
        ELSE IF t = "image/tiff" THEN ".tiff"
        ELSE ""

\* a raise_for_status that raises for the statuses 500 to 599 only
RaisesForStatusServerOnly(status) == status >= 500 /\ status < 600

\* Response.raise_for_status() raises for the statuses 400 to 599
RaisesForStatus(status) == status >= 400 /\ status < 600

\* urlparse(img_url).path.split("/")[-1]
LastSegment(img_url) ==
    LET segs == SplitChar(UrlPath(img_url), "/") IN segs[Len(segs)]

\* the name proposed to unique_name for an image that passed the checks
ProposedName(img_url, i, ct) ==
    LET last == LastSegment(img_url)
        path_name == safe_filename(IF last = "" THEN "image_" \o IntToStr(i) ELSE last, "image")
        lower_path == Lower(path_name)
    IN  IF \E e \in IMG_EXTS : EndsWith(lower_path, e) THEN path_name
        ELSE LET guessed == guess_ext_from_content_type(ct)
             IN  path_name \o (IF guessed = "" THEN ".img" ELSE guessed)

\* what sess.get and the reading of r.content can come to for one image:
\* sess.get raises (connection error, timeout), or a response arrives with a
\* status, a Content-Type header (None when there is none) and a body, the
\* reading of which (stream=True) may raise as well
Raised == [kind |-> "raised", status |-> 0, content_type |-> None, body |-> "", read_ok |-> FALSE]

Response(status, content_type, body, read_ok) ==
    [kind |-> "response", status |-> status, content_type |-> content_type,
     body |-> body, read_ok |-> read_ok]

ImageResponses ==
    { Raised,
      Response(404, "text/html", "nf", TRUE),
      Response(300, "image/png", "mc", TRUE),
      Response(200, "text/html; charset=utf-8", "<p>", TRUE),
      Response(200, "image/png", "", TRUE),
      Response(200, "image/png", "abc", TRUE),
      Response(200, "IMAGE/JPEG; q=1", "de", TRUE) }

\* the checks without the one for an empty body
PassesChecksAnyBody(r) ==
    /\ r.kind = "response"
    /\ ~(r.status >= 400 /\ r.status < 600)
    /\ StartsWith(Lower(IF r.content_type = None THEN "" ELSE r.content_type), "image/")
    /\ r.read_ok

\* the checks of the loop body before the file name is determined
PassesChecks(r) ==
    /\ r.kind = "response"
    /\ ~RaisesForStatus(r.status)
    /\ StartsWith(Lower(IF r.content_type = None THEN "" ELSE r.content_type), "image/")
    /\ r.read_ok
    /\ r.body # ""

DownloadResult(url, filename, size_bytes, content_type) ==
    [url |-> url, filename |-> filename, size_bytes |-> size_bytes, content_type |-> content_type]

\* image_urls[:max_images + 1]
TruncatedOneMore(urls, n) == SubSeq(urls, 1, IF n + 1 < Len(urls) THEN n + 1 ELSE Len(urls))

\* image_urls[:max_images], for max_images >= 0
Truncated(urls, n) == SubSeq(urls, 1, IF n < Len(urls) THEN n ELSE Len(urls))

\* a writestr that writes the first two bytes only
WriteStrFirstBytes(entries, filename, raw) ==
    Append(entries, [name |-> filename, data |-> SubSeq(raw, 1, IF Len(raw) < 2 THEN Len(raw) ELSE 2)])

\* zf.writestr(filename, raw): the archive's entries after it
WriteStr(entries, filename, raw) == Append(entries, [name |-> filename, data |-> raw])

page_url == "https://x.test/p"

Page(final_url, html) == [final_url |-> final_url, html |-> html]

Src(v) == Img(None, v, None, None, None)

\* what the server may hold at page_url
Pages ==
    { Page("https://x.test/p",
           << Src("/e/pic"), Src("/c/pic_2.png"), Src("/b/pic.png"), Src("/d/"),
              Src("/a/pic.png"), Src("a/pic.png") >>),
      Page("https://x.test/p",
           << Img("b-320.jpg 320w, b-640.jpg 640w", None, None, None, None), Src("/a.png") >>),
      Page("https://x.test/d/p",
           << Src("//y.test/c/pic.png"), Src("/a/pic.png?v=2"),
              Img("", "", "a/pic.png", None, None), Src("https://y.test/c/pic.png") >>),
      Page("https://x.test/p", << Img(None, None, None, None, None) >>),
      Page("https://x.test/p", << >>) }

PageStatuses == {200, 300, 404, 503}

\* the greatest max_images the model calls build_zip_from_images with
MaxImagesArg == 3

ZipInit ==
    /\ pc = "start"
    /\ page \in Pages
    /\ page_status = 0
    /\ max_images \in 1..MaxImagesArg
    /\ extracted = <<>>
    /\ image_urls = <<>>
    /\ idx = 0
    /\ downloaded = <<>>
    /\ skipped = <<>>
    /\ used_names = {}
    /\ zip = <<>>
    /\ inflight = {}
    /\ requests = <<>>
    /\ attempts = <<>>
    /\ result = NoResult
    /\ SanIdle
    /\ UqIdle
    /\ SrcIdle
    /\ ExIdle

\* resp = sess.get(page_url, ...): the request goes out
FetchPage ==
    /\ pc = "start"
    /\ inflight = {}
    /\ inflight' = {page_url}
    /\ requests' = Append(requests, page_url)
    /\ pc' = "page"
    /\ UNCHANGED <<page, page_status, max_images, extracted, image_urls, idx, downloaded, skipped,
                   used_names, zip, attempts, result>>
    /\ UNCHANGED <<sanVars, uqVars, srcVars, exVars>>

\* sess.get raises, or resp.raise_for_status() does: the call raises
PageFetchRaises ==
    /\ pc = "page"
    /\ \E status \in {0} \cup {s \in PageStatuses : RaisesForStatus(s)} :
          /\ page_status' = status
          /\ result' = [state |-> "raised",
                        error |-> IF status = 0 THEN "RequestException" ELSE "HTTPError"]
    /\ inflight' = {}
    /\ pc' = "raised"
    /\ UNCHANGED <<page, max_images, extracted, image_urls, idx, downloaded, skipped,
                   used_names, zip, requests, attempts>>
    /\ UNCHANGED <<sanVars, uqVars, srcVars, exVars>>

\* the page arrives with a status raise_for_status lets pass: the URLs are
\* extracted against resp.url; without any the call returns b"", [], [],
\* otherwise the list is cut to max_images and the loop begins
PageFetchReturns ==
    /\ pc = "page"
    /\ \E status \in {s \in PageStatuses : ~RaisesForStatus(s)} :
          LET urls == extract_image_urls(page.html, page.final_url)
          IN  /\ page_status' = status
              /\ extracted' = urls
              /\ IF urls = <<>>
                 THEN /\ result' = [state |-> "returned", zip |-> <<>>,
                                    downloaded |-> <<>>, skipped |-> <<>>]
                      /\ pc' = "returned"
                      /\ UNCHANGED <<image_urls, idx>>
                 ELSE /\ image_urls' = Truncated(urls, max_images)
                      /\ idx' = 1
                      /\ pc' = "loop"
                      /\ UNCHANGED result
    /\ inflight' = {}
    /\ UNCHANGED <<page, max_images, downloaded, skipped, used_names, zip, requests, attempts>>
    /\ UNCHANGED <<sanVars, uqVars, srcVars, exVars>>

\* r = sess.get(img_url, ...) for the next URL of the list: the request goes out
FetchImage ==
    /\ pc = "loop"
    /\ idx <= Len(image_urls)
    /\ inflight = {}
    /\ inflight' = {image_urls[idx]}
    /\ requests' = Append(requests, image_urls[idx])
    /\ pc' = "image"
    /\ UNCHANGED <<page, page_status, max_images, extracted, image_urls, idx, downloaded, skipped,
                   used_names, zip, attempts, result>>
    /\ UNCHANGED <<sanVars, uqVars, srcVars, exVars>>

\* the rest of one turn of the loop, for the answer r and a zf.writestr that
\* succeeds or raises (write_ok): the image is skipped, or named, written and
\* recorded; a writestr that raises leaves the name in used_names
ImageFetched(r, write_ok) ==
    /\ pc = "image"
    /\ LET img_url == image_urls[idx]
       IN  IF PassesChecks(r)
           THEN LET ct == Lower(r.content_type)
                    named == unique_name(used_names, ProposedName(img_url, idx, ct))
                IN  /\ used_names' = named.existing
                    /\ IF write_ok
                       THEN /\ zip' = WriteStr(zip, named.name, r.body)
                            /\ downloaded' = Append(downloaded,
                                    DownloadResult(img_url, named.name, Len(r.body),
                                                   SplitChar(ct, ";")[1]))
                            /\ UNCHANGED skipped
                       ELSE /\ skipped' = Append(skipped, img_url)
                            /\ UNCHANGED <<zip, downloaded>>
           ELSE /\ skipped' = Append(skipped, img_url)
                /\ UNCHANGED <<zip, downloaded, used_names>>
    /\ attempts' = Append(attempts, [url |-> image_urls[idx], r |-> r, write_ok |-> write_ok])
    /\ inflight' = {}
    /\ idx' = idx + 1
    /\ pc' = "loop"
    /\ UNCHANGED <<page, page_status, max_images, extracted, image_urls, requests, result>>
    /\ UNCHANGED <<sanVars, uqVars, srcVars, exVars>>

ImageFetchEnds ==
    \E r \in ImageResponses :
        \E write_ok \in (IF PassesChecks(r) THEN BOOLEAN ELSE {TRUE}) :
            ImageFetched(r, write_ok)

\* return zip_buffer.getvalue(), downloaded, skipped
Return ==
    /\ pc = "loop"
    /\ idx > Len(image_urls)
    /\ result' = [state |-> "returned", zip |-> zip, downloaded |-> downloaded,
                  skipped |-> skipped]
    /\ pc' = "returned"
    /\ UNCHANGED <<page, page_status, max_images, extracted, image_urls, idx, downloaded, skipped,
                   used_names, zip, inflight, requests, attempts>>
    /\ UNCHANGED <<sanVars, uqVars, srcVars, exVars>>

Next ==
    \/ FetchPage
    \/ PageFetchRaises
    \/ PageFetchReturns
    \/ FetchImage
    \/ ImageFetchEnds
    \/ Return

Spec == ZipInit /\ [][Next]_vars

Ascending(urls) == \A i \in 1..(Len(urls) - 1) : StrLess(urls[i], urls[i + 1])

Min(a, b) == IF a < b THEN a ELSE b

Is2xx(status) == status >= 200 /\ status <= 299

Is4xx5xx(status) == status >= 400 /\ status <= 599

\* C1: no two entries written to the archive have the same name.
ArchiveNamesUnique ==
    \A i, j \in 1..Len(zip) : zip[i].name = zip[j].name => i = j

\* C1 witness: three images whose URLs propose the names pic.png, pic.png and
\* pic_2.png were written
ArchiveCollisionsResolved ==
    /\ pc = "returned"
    /\ Len(result.zip) = 3
    /\ result.downloaded[1].url = "https://x.test/a/pic.png"
    /\ result.downloaded[2].url = "https://x.test/b/pic.png"
    /\ result.downloaded[3].url = "https://x.test/c/pic_2.png"
    /\ {result.zip[i].name : i \in 1..3} = {"pic.png", "pic_2.png", "pic_2_2.png"}

\* whether the image request of an attempt failed: sess.get raised, or the
\* status is one the predicate Bad holds of
ImageFetchFailed(a, Bad(_)) == a.r.kind = "raised" \/ Bad(a.r.status)

CountSkipped(url) == Cardinality({i \in 1..Len(skipped) : skipped[i] = url})

CountDownloaded(url) == Cardinality({i \in 1..Len(downloaded) : downloaded[i].url = url})

\* the statement of C3 for the statuses Bad that count as a failed fetch
FailureIsolation(Bad(_)) ==
    /\ pc \notin {"start", "page"} => (pc = "raised" <=> (page_status = 0 \/ Bad(page_status)))
    /\ pc = "raised" =>
          /\ result.state = "raised"
          /\ requests = <<page_url>>
          /\ zip = <<>> /\ downloaded = <<>> /\ skipped = <<>>
    /\ \A k \in 1..Len(attempts) :
          ImageFetchFailed(attempts[k], Bad) =>
              CountSkipped(attempts[k].url) = 1 /\ CountDownloaded(attempts[k].url) = 0
    /\ pc = "loop" => (IF idx <= Len(image_urls) THEN ENABLED FetchImage ELSE ENABLED Return)
    /\ pc = "image" => ENABLED ImageFetchEnds
    /\ (pc = "returned" /\ extracted # <<>>) =>
          /\ result.state = "returned"
          /\ Len(attempts) = Len(image_urls)
          /\ \A k \in 1..Len(attempts) : attempts[k].url = image_urls[k]

NotIs2xx(status) == ~Is2xx(status)

OneOutcomeEach(Good(_)) ==
    pc = "returned" =>
        /\ Len(result.downloaded) + Len(result.skipped) = Len(attempts)
        /\ Len(attempts) <= max_images
        /\ \A j, k \in 1..Len(attempts) : attempts[j].url = attempts[k].url => j = k
        /\ \A k \in 1..Len(attempts) :
              LET a == attempts[k]
                  inD == Cardinality({i \in 1..Len(result.downloaded) :
                                         result.downloaded[i].url = a.url})
                  inS == Cardinality({i \in 1..Len(result.skipped) :
                                         result.skipped[i] = a.url})
                  ct == IF a.r.content_type = None THEN "" ELSE a.r.content_type
              IN  /\ inD + inS = 1
                  /\ inD = 1 <=>
                        /\ a.r.kind = "response"
                        /\ Good(a.r.status)
                        /\ StartsWith(Lower(ct), "image/")
                        /\ a.r.read_ok
                        /\ a.r.body # ""
                        /\ a.write_ok

Not4xx5xx(status) == ~Is4xx5xx(status)

FetchesFirstMaxImages ==
    LET m == Min(Len(extracted), max_images)
    IN  /\ Len(requests) <= 1 + m
        /\ Ascending(extracted)
        /\ \A k \in 2..Len(requests) : requests[k] = extracted[k - 1]
        /\ \A j, k \in 1..Len(requests) : requests[j] = requests[k] => j = k
        /\ pc = "returned" => Len(requests) = 1 + m

\* C5 witness: max_images = 1 on a page of five URLs, one image request
OneOfFiveFetched ==
    /\ pc = "returned"
    /\ max_images = 1
    /\ Len(extracted) = 5
    /\ requests = <<page_url, extracted[1]>>

\* C9: the page request is the first and is answered before any image
\* request goes out, at most one request is unanswered at any time, the image
\* requests go out in ascending order of URL, and the downloaded and the
\* skipped lists returned are in ascending order of URL.
SequentialInOrder ==
    /\ Cardinality(inflight) <= 1
    /\ requests # <<>> => requests[1] = page_url
    /\ Len(requests) >= 2 => (page_url \notin inflight /\ pc \notin {"start", "page"})
    /\ inflight # {} => inflight = {requests[Len(requests)]}
    /\ Ascending(SubSeq(requests, 2, Len(requests)))
    /\ pc = "returned" =>
          /\ inflight = {}
          /\ Ascending([i \in 1..Len(result.downloaded) |-> result.downloaded[i].url])
          /\ Ascending(result.skipped)

\* C9 witness: of three images in a markup that lists them in another order,
\* two were accepted and one was skipped
InOrderDone ==
    /\ pc = "returned"
    /\ page.final_url = "https://x.test/d/p"
    /\ Len(result.downloaded) = 2
    /\ Len(result.skipped) = 1
    /\ result.skipped[1] = "https://x.test/a/pic.png?v=2"

\* C10: when the call returns, the entries of the archive are, one for one
\* and in order, the records of downloaded: the same name, the body that was
\* fetched for the record's URL as data, its length as size_bytes; no skipped
\* URL has an entry.
ArchiveMatchesDownloaded ==
    pc = "returned" =>
        /\ Len(result.zip) = Len(result.downloaded)
        /\ \A k \in 1..Len(result.zip) :
              LET d == result.downloaded[k]
              IN  /\ result.zip[k].name = d.filename
                  /\ d.size_bytes = Len(result.zip[k].data)
                  /\ \E a \in 1..Len(attempts) :
                        attempts[a].url = d.url /\ attempts[a].r.body = result.zip[k].data
                  /\ \A i \in 1..Len(result.skipped) : result.skipped[i] # d.url

\* C10 witness: the page with src="/a.png" and a srcset whose widest candidate
\* is b-640.jpg gave the entries a.png and b-640.jpg
TwoEntriesDone ==
    /\ pc = "returned"
    /\ Len(result.zip) = 2
    /\ result.zip[1] = [name |-> "a.png", data |-> "abc"]
    /\ result.zip[2] = [name |-> "b-640.jpg", data |-> "de"]
    /\ result.downloaded[2] =
           DownloadResult("https://x.test/b-640.jpg", "b-640.jpg", 2, "image/jpeg")

====
